---- MODULE Spec2Model ----
(***************************************************************************)
(* Model of the test execution engine of Tests-Lib.                        *)
(*                                                                         *)
(*   src/src/run.rs           TestSpawner (spawn, pipe drains, wait)       *)
(*   src/src/test_manager.rs  Test::on_validate, Test::run                 *)
(*                                                                         *)
(* Spec          one call of Test::run: the caller, the spawned wait task, *)
(*               the two pipe_reader tasks, the child process and a clock  *)
(*               that counts seconds.                                      *)
(* SpecClassify  Test::on_validate applied to process outputs drawn from a *)
(*               bounded set.                                              *)
(*                                                                         *)
(* Time: a step that does not suspend takes no time; the clock advances    *)
(* only when every task is suspended (sleep, lock, child, join, pipe read, *)
(* the agent's communicate).  The child and the agent may act at any time. *)
(*                                                                         *)
(* Environment: child.wait() may fail (the status of a ProcessOutput is a  *)
(* Result); reads of the child's pipes, kill() of the own child and the    *)
(* wait() that follows it do not fail.                                     *)
(***************************************************************************)
EXTENDS Integers, Sequences, FiniteSets, TLC

VARIABLES
    test,            \* the Test being run (fields of struct Test)
    startup_delay,   \* TestManager.startup_delay handed to Test::run
    elfExists,       \* whether cwd.join(cmd_args[0]) exists
    clock,           \* seconds
    pcMain,          \* position of the caller inside Test::run
    pcWait,          \* position of the task spawned at test_manager.rs:298
    holders,         \* tasks holding a guard of the Mutex around TestSpawner
    childState,      \* "none" | "running" | "zombie" | "reaped"
    osStatus,        \* raw wait status the OS holds for the child
    handleDone,      \* tokio Child has been polled to completion
    pipesOpen,       \* the child still holds the write ends of its pipes
    outPipe,         \* bytes written to stdout and not yet read
    errPipe,         \* bytes written to stderr and not yet read
    nWrites,         \* writes the child has made, per stream
    outTask,         \* pipe_reader task of stdout: [st, buf, eof]
    errTask,         \* pipe_reader task of stderr: [st, buf, eof]
    wake,            \* end of the startup sleep
    spawnEnd,        \* clock when TestSpawner::new returned, -1 before
    deadline,        \* deadline of tokio::time::timeout inside wait
    timedOut,        \* wait took the Err(_timeout) arm
    killCount,       \* SIGKILLs sent by wait
    activeWaits,     \* child.wait() futures in progress
    waitLocal,       \* wait's locals and return value: [result, stdout, ret]
    produced,        \* the ProcessOutputs constructed so far, in order
    test_output,     \* the ProcessOutput the caller joined, <<>> before
    commCalls,       \* the process_id of every call of TestAgent::communicate
    communicate_output, \* None or Some(CommunicateOutput)
    files,           \* log files written
    is_not_errored,  \* local of Test::run
    validateCalls,   \* calls of TestAgent::validate: [comm, output, verdict]
    result,          \* return value of Test::run, <<>> before
    clsIn,           \* SpecClassify: the ProcessOutput given to on_validate
    clsOut,          \* SpecClassify: what on_validate did, <<>> before
    template,        \* SpecInst: the TestTemplate instantiate is called on
    port,            \* SpecInst: the Option<u16> given to instantiate
    instOut,         \* SpecInst: what instantiate did, <<>> before
    templates,       \* TestManager.templates: IndexMap, entries in order
    active_tests,    \* TestManager.active_tests: IndexMap, entries in order
    factoryCalls,    \* calls of a test_factory so far; the n-th makes agent n
    mgrPc,           \* "idle" | "running" | "panicked"
    running,         \* names of the tests whose run has started, not returned
    runObs,          \* run_tests in progress: what each finished run saw
    collected,       \* run_tests in progress: the (name, outcome) pairs
    returned,        \* the vector run_tests returned, while it is alive
    agentRuns,       \* the agent of every Test::run started, in order
    lastCall         \* the instantiate/reinstantiate call just made, or <<>>

runVars == <<test, startup_delay, elfExists, clock, pcMain, pcWait, holders,
             childState, osStatus, handleDone, pipesOpen, outPipe, errPipe,
             nWrites, outTask, errTask, wake, spawnEnd, deadline, timedOut,
             killCount, activeWaits, waitLocal, produced, test_output,
             commCalls, communicate_output, files, is_not_errored,
             validateCalls, result>>
clsVars == <<clsIn, clsOut>>
instVars == <<template, port, instOut>>
mgrVars == <<templates, active_tests, factoryCalls, mgrPc, running, runObs,
             collected, returned, agentRuns, lastCall>>
auxVars == <<clsVars, instVars, mgrVars>>
vars == <<runVars, clsVars, instVars, mgrVars>>

----------------------------------------------------------------------------
(* Bounds *)

MaxTime == 3
MaxTimeout == 2
MaxDelay == 1
MaxWrites == 1
MaxTokens == 3
MaxSignal == 31

(* Option<T> *)
None == <<>>
Some(x) == <<x>>

----------------------------------------------------------------------------
(* Exit statuses: std::process::ExitStatus on unix wraps the raw wait      *)
(* status; run.rs builds one with from_raw, test_manager.rs reads it with  *)
(* code() and signal().                                                    *)

Shl8(x) == x * 256

Status_Timeout == Shl8(124)
Status_Sigint == Shl8(130)
Status_Sigabrt == Shl8(134)
Status_Sigkill == Shl8(137)
Status_Sigsegv == Shl8(139)
Status_Sigpipe == Shl8(141)

SIGABRT == 6
SIGKILL == 9
SIGSEGV == 11
SIGPIPE == 13

from_raw(raw) == raw

\* WIFEXITED: low seven bits are zero; WEXITSTATUS: bits 8..15
code(status) ==
    IF status % 128 = 0 THEN Some((status \div 256) % 256) ELSE None

\* WIFSIGNALED: low seven bits neither 0 nor 0x7f; WTERMSIG: low seven bits
signal(status) ==
    IF status % 128 # 0 /\ status % 128 # 127
    THEN Some(status % 128)
    ELSE None

Ok(raw) == [ok |-> TRUE, raw |-> raw]
Err == [ok |-> FALSE, raw |-> 0]

ProcessOutput_new(stdout, stderr, status) ==
    [stdout |-> stdout, stderr |-> stderr, status |-> status]

----------------------------------------------------------------------------
(* Text: a byte string is a sequence of one-character strings; BadByte is  *)
(* a byte that is not valid UTF-8.                                         *)

BadByte == "\\xFF"
Replacement == "\\uFFFD"

from_utf8_lossy(bytes) ==
    [i \in DOMAIN bytes |-> IF bytes[i] = BadByte THEN Replacement ELSE bytes[i]]

LowerOf(c) ==
    CASE c = "I" -> "i"
      [] c = "N" -> "n"
      [] c = "U" -> "u"
      [] c = "S" -> "s"
      [] c = "E" -> "e"
      [] c = "X" -> "x"
      [] OTHER -> c

to_lowercase(s) == [i \in DOMAIN s |-> LowerOf(s[i])]

contains(s, needle) ==
    \E i \in 0..(Len(s) - Len(needle)) :
        SubSeq(s, i + 1, i + Len(needle)) = needle

InUse == <<"i", "n", " ", "u", "s", "e">>

----------------------------------------------------------------------------
(* Test::on_validate, test_manager.rs:214-267.  The result is what the    *)
(* call does: it returns a bool or panics.                                 *)

Return(v) == [panic |-> FALSE, val |-> v]
Panic == [panic |-> TRUE, val |-> FALSE]

(* on_validate searching stderr without lowering it first *)
on_validate_CaseSensitive(output) ==
    LET stderr == from_utf8_lossy(output.stderr) IN
    IF contains(stderr, InUse) THEN Return(FALSE)
    ELSE IF output.status.ok THEN
        LET status == output.status.raw IN
        IF code(status) # None THEN
            LET c == code(status)[1] IN
            IF c = 0 \/ c = 1 THEN Return(TRUE)
            ELSE IF c = Status_Timeout THEN Return(FALSE)
            ELSE Return(TRUE)
        ELSE IF signal(status) = None THEN Panic
        ELSE
            LET signal_code == signal(status)[1] IN
            IF signal_code = SIGSEGV THEN Return(FALSE)
            ELSE IF signal_code = SIGABRT THEN Return(FALSE)
            ELSE Return(TRUE)
    ELSE Panic

(* on_validate without the SIGABRT arm *)
on_validate_AbortPasses(output) ==
    LET stderr == to_lowercase(from_utf8_lossy(output.stderr)) IN
    IF contains(stderr, InUse) THEN Return(FALSE)
    ELSE IF output.status.ok THEN
        LET status == output.status.raw IN
        IF code(status) # None THEN
            LET c == code(status)[1] IN
            IF c = 0 \/ c = 1 THEN Return(TRUE)
            ELSE IF c = Status_Timeout THEN Return(FALSE)
            ELSE Return(TRUE)
        ELSE IF signal(status) = None THEN Panic
        ELSE
            LET signal_code == signal(status)[1] IN
            IF signal_code = SIGSEGV THEN Return(FALSE)
            ELSE Return(TRUE)
    ELSE Panic

on_validate(output) ==
    LET stderr == to_lowercase(from_utf8_lossy(output.stderr)) IN
    IF contains(stderr, InUse) THEN Return(FALSE)
    ELSE IF output.status.ok THEN
        LET status == output.status.raw IN
        IF code(status) # None THEN
            LET c == code(status)[1] IN
            IF c = 0 \/ c = 1 THEN Return(TRUE)
            ELSE IF c = Status_Timeout THEN Return(FALSE)
            ELSE Return(TRUE)
        ELSE IF signal(status) = None THEN Panic
        ELSE
            LET signal_code == signal(status)[1] IN
            IF signal_code = SIGSEGV THEN Return(FALSE)
            ELSE IF signal_code = SIGABRT THEN Return(FALSE)
            ELSE Return(TRUE)
    ELSE Panic

----------------------------------------------------------------------------
(* One call of Test::run.                                                  *)

Timeouts == 1..MaxTimeout
Delays == 0..MaxDelay
CmdArgs == {<<>>, <<"prog">>}
OutChunks == {<<"o">>}
ErrChunks == {<<"x">>, <<"I", "n", " ", "U", "s", "e">>}
ExitCodes == {0, 1, 124}
Signals == {SIGSEGV, SIGPIPE}
TempBufLen == 1024
ChildPid == 4242
CommunicateOutput == [output |-> <<>>, error |-> None]
IdleTask == [st |-> "none", buf |-> <<>>, eof |-> FALSE]
NoStatus == 0 - 1

Tests ==
    [cmd_args : CmdArgs, timeout : Timeouts, log_output : BOOLEAN,
     require_communicator : BOOLEAN]

RunIdle ==
    /\ clock = 0
    /\ pcMain = "start"
    /\ pcWait = "none"
    /\ holders = {}
    /\ childState = "none"
    /\ osStatus = NoStatus
    /\ handleDone = FALSE
    /\ pipesOpen = FALSE
    /\ outPipe = <<>>
    /\ errPipe = <<>>
    /\ nWrites = [s \in {"out", "err"} |-> 0]
    /\ outTask = IdleTask
    /\ errTask = IdleTask
    /\ wake = 0
    /\ spawnEnd = 0 - 1
    /\ deadline = 0
    /\ timedOut = FALSE
    /\ killCount = 0
    /\ activeWaits = 0
    /\ waitLocal = [result |-> Err, stdout |-> <<>>, ret |-> None]
    /\ produced = <<>>
    /\ test_output = None
    /\ commCalls = <<>>
    /\ communicate_output = None
    /\ files = {}
    /\ is_not_errored = FALSE
    /\ validateCalls = <<>>
    /\ result = None

ClsIdle == clsIn = None /\ clsOut = None

InstIdle == template = None /\ port = None /\ instOut = None

(* test_manager.rs:373-387: the manager TestManager::new returns *)
MgrIdle ==
    /\ templates = <<>>
    /\ active_tests = <<>>
    /\ factoryCalls = 0
    /\ mgrPc = "idle"
    /\ running = {}
    /\ runObs = <<>>
    /\ collected = <<>>
    /\ returned = <<>>
    /\ agentRuns = <<>>
    /\ lastCall = None

Init ==
    /\ test \in Tests
    /\ startup_delay \in Delays
    /\ elfExists \in BOOLEAN
    /\ RunIdle
    /\ ClsIdle
    /\ InstIdle
    /\ MgrIdle

(* the handle shared without waiting for the lock *)
MutexFree_Unguarded == TRUE

(* tokio::sync::Mutex: lock() completes only when no guard is alive *)
MutexFree == holders = {}

(* tokio::process::Child::id(): None once the child was polled to completion *)
TestSpawner_id == IF handleDone THEN None ELSE Some(ChildPid)

----------------------------------------------------------------------------
(* The caller: Test::run, test_manager.rs:271-369 *)

(* Test::run returning the agent's verdict alone *)
RunResult_AgentOnly(not_errored, is_confirmed) == is_confirmed

(* test_manager.rs:368: the value Test::run returns *)
RunResult(not_errored, is_confirmed) == not_errored /\ is_confirmed

(* Test::run starting the process whatever cmd_args holds *)
Run_Start_AlwaysSpawn ==
    /\ pcMain = "start"
    /\ pcMain' = "new"
    /\ UNCHANGED <<test, startup_delay, elfExists, clock, pcWait, holders,
                   childState, osStatus, handleDone, pipesOpen, outPipe,
                   errPipe, nWrites, outTask, errTask, wake, spawnEnd,
                   deadline, timedOut, killCount, activeWaits, waitLocal,
                   produced, test_output, commCalls, communicate_output,
                   files, is_not_errored, validateCalls, result, auxVars>>

(* test_manager.rs:280 *)
Run_Start ==
    /\ pcMain = "start"
    /\ pcMain' = IF test.cmd_args = <<>> THEN "validate_dummy" ELSE "new"
    /\ UNCHANGED <<test, startup_delay, elfExists, clock, pcWait, holders,
                   childState, osStatus, handleDone, pipesOpen, outPipe,
                   errPipe, nWrites, outTask, errTask, wake, spawnEnd,
                   deadline, timedOut, killCount, activeWaits, waitLocal,
                   produced, test_output, commCalls, communicate_output,
                   files, is_not_errored, validateCalls, result, auxVars>>

(* test_manager.rs:282-287: the agent alone decides on the dummy output *)
Run_ValidateDummy ==
    /\ pcMain = "validate_dummy"
    /\ LET dummy == ProcessOutput_new(<<>>, <<>>, Ok(from_raw(0))) IN
       /\ produced' = Append(produced, dummy)
       /\ \E verdict \in BOOLEAN :
            /\ validateCalls' = Append(validateCalls,
                    [comm |-> None, output |-> dummy, verdict |-> verdict])
            /\ result' = Some(verdict)
    /\ pcMain' = "done"
    /\ UNCHANGED <<test, startup_delay, elfExists, clock, pcWait, holders,
                   childState, osStatus, handleDone, pipesOpen, outPipe,
                   errPipe, nWrites, outTask, errTask, wake, spawnEnd,
                   deadline, timedOut, killCount, activeWaits, waitLocal,
                   test_output, commCalls, communicate_output,
                   files, is_not_errored, auxVars>>

(* TestSpawner::new, run.rs:63-81: existence check, spawn, startup sleep *)
New_Spawn ==
    /\ pcMain = "new"
    /\ IF ~elfExists
       THEN /\ pcMain' = "panicked"
            /\ UNCHANGED <<childState, pipesOpen, wake>>
       ELSE /\ childState' = "running"
            /\ pipesOpen' = TRUE
            /\ wake' = clock + startup_delay
            /\ pcMain' = IF startup_delay > 0 THEN "sleep" ELSE "take_pipes"
    /\ UNCHANGED <<test, startup_delay, elfExists, clock, pcWait, holders,
                   osStatus, handleDone, outPipe,
                   errPipe, nWrites, outTask, errTask, spawnEnd,
                   deadline, timedOut, killCount, activeWaits, waitLocal,
                   produced, test_output, commCalls, communicate_output,
                   files, is_not_errored, validateCalls, result, auxVars>>

(* run.rs:78-81: tokio::time::sleep(startup_delay) returns *)
New_Sleep ==
    /\ pcMain = "sleep"
    /\ clock >= wake
    /\ pcMain' = "take_pipes"
    /\ UNCHANGED <<test, startup_delay, elfExists, clock, pcWait, holders,
                   childState, osStatus, handleDone, pipesOpen, outPipe,
                   errPipe, nWrites, outTask, errTask, wake, spawnEnd,
                   deadline, timedOut, killCount, activeWaits, waitLocal,
                   produced, test_output, commCalls, communicate_output,
                   files, is_not_errored, validateCalls, result, auxVars>>

(* run.rs:83-94: take the pipes, spawn both pipe_reader tasks, return *)
New_TakePipes ==
    /\ pcMain = "take_pipes"
    /\ outTask' = [outTask EXCEPT !.st = "reading"]
    /\ errTask' = [errTask EXCEPT !.st = "reading"]
    /\ spawnEnd' = clock
    /\ pcMain' = "spawn_wait"
    /\ UNCHANGED <<test, startup_delay, elfExists, clock, pcWait, holders,
                   childState, osStatus, handleDone, pipesOpen, outPipe,
                   errPipe, nWrites, wake,
                   deadline, timedOut, killCount, activeWaits, waitLocal,
                   produced, test_output, commCalls, communicate_output,
                   files, is_not_errored, validateCalls, result, auxVars>>

(* test_manager.rs:297-309: tokio::spawn of the wait task *)
Run_SpawnWait ==
    /\ pcMain = "spawn_wait"
    /\ pcWait' = "lock"
    /\ pcMain' = IF test.require_communicator THEN "lock_id" ELSE "join"
    /\ UNCHANGED <<test, startup_delay, elfExists, clock, holders,
                   childState, osStatus, handleDone, pipesOpen, outPipe,
                   errPipe, nWrites, outTask, errTask, wake, spawnEnd,
                   deadline, timedOut, killCount, activeWaits, waitLocal,
                   produced, test_output, commCalls, communicate_output,
                   files, is_not_errored, validateCalls, result, auxVars>>

(* test_manager.rs:311-317: the arguments of communicate are evaluated,    *)
(* the last one being test_proc.lock().await.id(); the guard is a          *)
(* temporary of the let statement and lives until the statement ends.      *)
Run_LockId ==
    /\ pcMain = "lock_id"
    /\ MutexFree
    /\ holders' = holders \cup {"main"}
    /\ commCalls' = Append(commCalls, TestSpawner_id)
    /\ pcMain' = "communicate"
    /\ UNCHANGED <<test, startup_delay, elfExists, clock, pcWait,
                   childState, osStatus, handleDone, pipesOpen, outPipe,
                   errPipe, nWrites, outTask, errTask, wake, spawnEnd,
                   deadline, timedOut, killCount, activeWaits, waitLocal,
                   produced, test_output, communicate_output,
                   files, is_not_errored, validateCalls, result, auxVars>>

(* communicate returning with the guard of the handle kept alive *)
Run_CommunicateReturn_KeepsGuard ==
    /\ pcMain = "communicate"
    /\ communicate_output' = Some(CommunicateOutput)
    /\ pcMain' = "comm_log"
    /\ UNCHANGED <<test, startup_delay, elfExists, clock, pcWait, holders,
                   childState, osStatus, handleDone, pipesOpen, outPipe,
                   errPipe, nWrites, outTask, errTask, wake, spawnEnd,
                   deadline, timedOut, killCount, activeWaits, waitLocal,
                   produced, test_output, commCalls,
                   files, is_not_errored, validateCalls, result, auxVars>>

(* test_manager.rs:318: communicate(..).await returns, when the agent      *)
(* decides; the let statement ends and the guard is dropped.               *)
Run_CommunicateReturn ==
    /\ pcMain = "communicate"
    /\ communicate_output' = Some(CommunicateOutput)
    /\ holders' = holders \ {"main"}
    /\ pcMain' = "comm_log"
    /\ UNCHANGED <<test, startup_delay, elfExists, clock, pcWait,
                   childState, osStatus, handleDone, pipesOpen, outPipe,
                   errPipe, nWrites, outTask, errTask, wake, spawnEnd,
                   deadline, timedOut, killCount, activeWaits, waitLocal,
                   produced, test_output, commCalls,
                   files, is_not_errored, validateCalls, result, auxVars>>

(* test_manager.rs:320-336 *)
Run_CommunicateLog ==
    /\ pcMain = "comm_log"
    /\ files' = files \cup {"communicate"}
    /\ pcMain' = "join"
    /\ UNCHANGED <<test, startup_delay, elfExists, clock, pcWait, holders,
                   childState, osStatus, handleDone, pipesOpen, outPipe,
                   errPipe, nWrites, outTask, errTask, wake, spawnEnd,
                   deadline, timedOut, killCount, activeWaits, waitLocal,
                   produced, test_output, commCalls, communicate_output,
                   is_not_errored, validateCalls, result, auxVars>>

(* test_manager.rs:342: join the wait task *)
Run_Join ==
    /\ pcMain = "join"
    /\ pcWait = "done"
    /\ test_output' = waitLocal.ret
    /\ pcMain' = "log"
    /\ UNCHANGED <<test, startup_delay, elfExists, clock, pcWait, holders,
                   childState, osStatus, handleDone, pipesOpen, outPipe,
                   errPipe, nWrites, outTask, errTask, wake, spawnEnd,
                   deadline, timedOut, killCount, activeWaits, waitLocal,
                   produced, commCalls, communicate_output,
                   files, is_not_errored, validateCalls, result, auxVars>>

(* test_manager.rs:345-358 *)
Run_Log ==
    /\ pcMain = "log"
    /\ files' = IF test.log_output THEN files \cup {"output"} ELSE files
    /\ pcMain' = "on_validate"
    /\ UNCHANGED <<test, startup_delay, elfExists, clock, pcWait, holders,
                   childState, osStatus, handleDone, pipesOpen, outPipe,
                   errPipe, nWrites, outTask, errTask, wake, spawnEnd,
                   deadline, timedOut, killCount, activeWaits, waitLocal,
                   produced, test_output, commCalls, communicate_output,
                   is_not_errored, validateCalls, result, auxVars>>

(* test_manager.rs:360 *)
Run_OnValidate ==
    /\ pcMain = "on_validate"
    /\ LET r == on_validate(test_output[1]) IN
       IF r.panic
       THEN pcMain' = "panicked" /\ UNCHANGED is_not_errored
       ELSE pcMain' = "validate" /\ is_not_errored' = r.val
    /\ UNCHANGED <<test, startup_delay, elfExists, clock, pcWait, holders,
                   childState, osStatus, handleDone, pipesOpen, outPipe,
                   errPipe, nWrites, outTask, errTask, wake, spawnEnd,
                   deadline, timedOut, killCount, activeWaits, waitLocal,
                   produced, test_output, commCalls, communicate_output,
                   files, validateCalls, result, auxVars>>

(* test_manager.rs:361-368 *)
Run_Validate ==
    /\ pcMain = "validate"
    /\ \E is_confirmed \in BOOLEAN :
        /\ validateCalls' = Append(validateCalls,
                [comm |-> communicate_output, output |-> test_output[1],
                 verdict |-> is_confirmed])
        /\ result' = Some(RunResult(is_not_errored, is_confirmed))
    /\ pcMain' = "done"
    /\ UNCHANGED <<test, startup_delay, elfExists, clock, pcWait, holders,
                   childState, osStatus, handleDone, pipesOpen, outPipe,
                   errPipe, nWrites, outTask, errTask, wake, spawnEnd,
                   deadline, timedOut, killCount, activeWaits, waitLocal,
                   produced, test_output, commCalls, communicate_output,
                   files, is_not_errored, auxVars>>

----------------------------------------------------------------------------
(* The wait task: test_manager.rs:301-304 and TestSpawner::wait,           *)
(* run.rs:108-141                                                          *)

(* wait reporting the status the kill produced *)
TimeoutResult_KillStatus(killStatus) == Ok(killStatus)

(* wait building its result without awaiting the drain task *)
Joined_NoAwait(task) == TRUE

(* run.rs:122: the status wait reports after it killed the child, whatever *)
(* status the kill left in the OS                                          *)
TimeoutResult(killStatus) == Ok(from_raw(Status_Timeout))

(* run.rs:126-138: a JoinHandle completes when its task has returned *)
Joined(task) == task.st = "done"

(* test_manager.rs:302-303, run.rs:109-111: lock, then start the timeout   *)
(* around child.wait()                                                     *)
Wait_Lock ==
    /\ pcWait = "lock"
    /\ MutexFree
    /\ holders' = holders \cup {"wait"}
    /\ deadline' = clock + test.timeout
    /\ activeWaits' = activeWaits + 1
    /\ pcWait' = "waiting"
    /\ UNCHANGED <<test, startup_delay, elfExists, clock, pcMain,
                   childState, osStatus, handleDone, pipesOpen, outPipe,
                   errPipe, nWrites, outTask, errTask, wake, spawnEnd,
                   timedOut, killCount, waitLocal,
                   produced, test_output, commCalls, communicate_output,
                   files, is_not_errored, validateCalls, result, auxVars>>

(* run.rs:111-117: child.wait() completes before the timeout; the OS       *)
(* reports the status or the wait fails                                    *)
Wait_Natural ==
    /\ pcWait = "waiting"
    /\ childState = "zombie"
    /\ \E status \in {Ok(osStatus), Err} :
        /\ waitLocal' = [waitLocal EXCEPT !.result = status]
        /\ handleDone' = status.ok
    /\ childState' = "reaped"
    /\ activeWaits' = activeWaits - 1
    /\ pcWait' = "join_out"
    /\ UNCHANGED <<test, startup_delay, elfExists, clock, pcMain, holders,
                   osStatus, pipesOpen, outPipe,
                   errPipe, nWrites, outTask, errTask, wake, spawnEnd,
                   deadline, timedOut, killCount,
                   produced, test_output, commCalls, communicate_output,
                   files, is_not_errored, validateCalls, result, auxVars>>

(* run.rs:110-118: the timeout elapses with the child still running; the   *)
(* child.wait() future is dropped                                          *)
Wait_Timeout ==
    /\ pcWait = "waiting"
    /\ childState = "running"
    /\ clock >= deadline
    /\ timedOut' = TRUE
    /\ activeWaits' = activeWaits - 1
    /\ pcWait' = "kill"
    /\ UNCHANGED <<test, startup_delay, elfExists, clock, pcMain, holders,
                   childState, osStatus, handleDone, pipesOpen, outPipe,
                   errPipe, nWrites, outTask, errTask, wake, spawnEnd,
                   deadline, killCount, waitLocal,
                   produced, test_output, commCalls, communicate_output,
                   files, is_not_errored, validateCalls, result, auxVars>>

(* run.rs:119: child.kill() sends SIGKILL; the child may have exited on    *)
(* its own since the timeout fired                                         *)
Wait_Kill ==
    /\ pcWait = "kill"
    /\ killCount' = killCount + 1
    /\ IF childState = "running"
       THEN /\ childState' = "zombie"
            /\ osStatus' = SIGKILL
            /\ pipesOpen' = FALSE
       ELSE UNCHANGED <<childState, osStatus, pipesOpen>>
    /\ activeWaits' = activeWaits + 1
    /\ pcWait' = "reap"
    /\ UNCHANGED <<test, startup_delay, elfExists, clock, pcMain, holders,
                   handleDone, outPipe,
                   errPipe, nWrites, outTask, errTask, wake, spawnEnd,
                   deadline, timedOut, waitLocal,
                   produced, test_output, commCalls, communicate_output,
                   files, is_not_errored, validateCalls, result, auxVars>>

(* run.rs:119-122: the killed child is reaped, child.wait() returns the    *)
(* reaped status, and the result is the Timeout status                     *)
Wait_Reap ==
    /\ pcWait = "reap"
    /\ childState = "zombie"
    /\ childState' = "reaped"
    /\ handleDone' = TRUE
    /\ activeWaits' = activeWaits - 1
    /\ waitLocal' = [waitLocal EXCEPT !.result = TimeoutResult(osStatus)]
    /\ pcWait' = "join_out"
    /\ UNCHANGED <<test, startup_delay, elfExists, clock, pcMain, holders,
                   osStatus, pipesOpen, outPipe,
                   errPipe, nWrites, outTask, errTask, wake, spawnEnd,
                   deadline, timedOut, killCount,
                   produced, test_output, commCalls, communicate_output,
                   files, is_not_errored, validateCalls, result, auxVars>>

(* run.rs:126-131 *)
Wait_JoinOut ==
    /\ pcWait = "join_out"
    /\ Joined(outTask)
    /\ waitLocal' = [waitLocal EXCEPT !.stdout = outTask.buf]
    /\ pcWait' = "join_err"
    /\ UNCHANGED <<test, startup_delay, elfExists, clock, pcMain, holders,
                   childState, osStatus, handleDone, pipesOpen, outPipe,
                   errPipe, nWrites, outTask, errTask, wake, spawnEnd,
                   deadline, timedOut, killCount, activeWaits,
                   produced, test_output, commCalls, communicate_output,
                   files, is_not_errored, validateCalls, result, auxVars>>

(* run.rs:133-140 and test_manager.rs:303-304: the ProcessOutput is built, *)
(* the task returns it and its guard is dropped                            *)
Wait_JoinErr ==
    /\ pcWait = "join_err"
    /\ Joined(errTask)
    /\ LET out == ProcessOutput_new(waitLocal.stdout, errTask.buf,
                                    waitLocal.result) IN
       /\ waitLocal' = [waitLocal EXCEPT !.ret = Some(out)]
       /\ produced' = Append(produced, out)
    /\ holders' = holders \ {"wait"}
    /\ pcWait' = "done"
    /\ UNCHANGED <<test, startup_delay, elfExists, clock, pcMain,
                   childState, osStatus, handleDone, pipesOpen, outPipe,
                   errPipe, nWrites, outTask, errTask, wake, spawnEnd,
                   deadline, timedOut, killCount, activeWaits,
                   test_output, commCalls, communicate_output,
                   files, is_not_errored, validateCalls, result, auxVars>>

----------------------------------------------------------------------------
(* pipe_reader, run.rs:35-48: one iteration of the loop.  A read takes     *)
(* what the pipe holds, up to the size of temp_buf; a read of an empty     *)
(* pipe whose write end is closed returns 0 and ends the loop.             *)

Min(a, b) == IF a < b THEN a ELSE b

pipe_reader(task, pipe) ==
    IF pipe # <<>>
    THEN LET n == Min(Len(pipe), TempBufLen) IN
         [task |-> [task EXCEPT !.buf = task.buf \o SubSeq(pipe, 1, n)],
          pipe |-> SubSeq(pipe, n + 1, Len(pipe))]
    ELSE [task |-> [task EXCEPT !.st = "done", !.eof = TRUE], pipe |-> pipe]

ReadReady(task, pipe) == task.st = "reading" /\ (pipe # <<>> \/ ~pipesOpen)

Drain_Out ==
    /\ ReadReady(outTask, outPipe)
    /\ LET r == pipe_reader(outTask, outPipe) IN
       outTask' = r.task /\ outPipe' = r.pipe
    /\ UNCHANGED <<test, startup_delay, elfExists, clock, pcMain, pcWait,
                   holders, childState, osStatus, handleDone, pipesOpen,
                   errPipe, nWrites, errTask, wake, spawnEnd,
                   deadline, timedOut, killCount, activeWaits, waitLocal,
                   produced, test_output, commCalls, communicate_output,
                   files, is_not_errored, validateCalls, result, auxVars>>

Drain_Err ==
    /\ ReadReady(errTask, errPipe)
    /\ LET r == pipe_reader(errTask, errPipe) IN
       errTask' = r.task /\ errPipe' = r.pipe
    /\ UNCHANGED <<test, startup_delay, elfExists, clock, pcMain, pcWait,
                   holders, childState, osStatus, handleDone, pipesOpen,
                   outPipe, nWrites, outTask, wake, spawnEnd,
                   deadline, timedOut, killCount, activeWaits, waitLocal,
                   produced, test_output, commCalls, communicate_output,
                   files, is_not_errored, validateCalls, result, auxVars>>

----------------------------------------------------------------------------
(* The child process: the program under test, run.rs:70-76 *)

Child_WriteOut ==
    /\ childState = "running"
    /\ nWrites["out"] < MaxWrites
    /\ \E chunk \in OutChunks : outPipe' = outPipe \o chunk
    /\ nWrites' = [nWrites EXCEPT !["out"] = @ + 1]
    /\ UNCHANGED <<test, startup_delay, elfExists, clock, pcMain, pcWait,
                   holders, childState, osStatus, handleDone, pipesOpen,
                   errPipe, outTask, errTask, wake, spawnEnd,
                   deadline, timedOut, killCount, activeWaits, waitLocal,
                   produced, test_output, commCalls, communicate_output,
                   files, is_not_errored, validateCalls, result, auxVars>>

Child_WriteErr ==
    /\ childState = "running"
    /\ nWrites["err"] < MaxWrites
    /\ \E chunk \in ErrChunks : errPipe' = errPipe \o chunk
    /\ nWrites' = [nWrites EXCEPT !["err"] = @ + 1]
    /\ UNCHANGED <<test, startup_delay, elfExists, clock, pcMain, pcWait,
                   holders, childState, osStatus, handleDone, pipesOpen,
                   outPipe, outTask, errTask, wake, spawnEnd,
                   deadline, timedOut, killCount, activeWaits, waitLocal,
                   produced, test_output, commCalls, communicate_output,
                   files, is_not_errored, validateCalls, result, auxVars>>

(* the child exits with a code or is terminated by a signal of its own *)
Child_Terminate ==
    /\ childState = "running"
    /\ \E raw \in {Shl8(c) : c \in ExitCodes} \cup Signals : osStatus' = raw
    /\ childState' = "zombie"
    /\ pipesOpen' = FALSE
    /\ UNCHANGED <<test, startup_delay, elfExists, clock, pcMain, pcWait,
                   holders, handleDone, outPipe,
                   errPipe, nWrites, outTask, errTask, wake, spawnEnd,
                   deadline, timedOut, killCount, activeWaits, waitLocal,
                   produced, test_output, commCalls, communicate_output,
                   files, is_not_errored, validateCalls, result, auxVars>>

----------------------------------------------------------------------------
(* Time *)

MainReady ==
    \/ pcMain \in {"start", "validate_dummy", "new", "take_pipes",
                   "spawn_wait", "comm_log", "log", "on_validate", "validate"}
    \/ pcMain = "sleep" /\ clock >= wake
    \/ pcMain = "lock_id" /\ MutexFree
    \/ pcMain = "join" /\ pcWait = "done"

WaitReady ==
    \/ pcWait = "lock" /\ MutexFree
    \/ pcWait = "waiting" /\ (childState = "zombie" \/ clock >= deadline)
    \/ pcWait \in {"kill", "reap"}
    \/ pcWait = "join_out" /\ Joined(outTask)
    \/ pcWait = "join_err" /\ Joined(errTask)

Tick ==
    /\ clock < MaxTime
    /\ pcMain \notin {"done", "panicked"}
    /\ ~MainReady
    /\ ~WaitReady
    /\ ~ReadReady(outTask, outPipe)
    /\ ~ReadReady(errTask, errPipe)
    /\ clock' = clock + 1
    /\ UNCHANGED <<test, startup_delay, elfExists, pcMain, pcWait, holders,
                   childState, osStatus, handleDone, pipesOpen, outPipe,
                   errPipe, nWrites, outTask, errTask, wake, spawnEnd,
                   deadline, timedOut, killCount, activeWaits, waitLocal,
                   produced, test_output, commCalls, communicate_output,
                   files, is_not_errored, validateCalls, result, auxVars>>

Next ==
    \/ Run_Start
    \/ Run_ValidateDummy
    \/ New_Spawn
    \/ New_Sleep
    \/ New_TakePipes
    \/ Run_SpawnWait
    \/ Run_LockId
    \/ Run_CommunicateReturn
    \/ Run_CommunicateLog
    \/ Run_Join
    \/ Run_Log
    \/ Run_OnValidate
    \/ Run_Validate
    \/ Wait_Lock
    \/ Wait_Natural
    \/ Wait_Timeout
    \/ Wait_Kill
    \/ Wait_Reap
    \/ Wait_JoinOut
    \/ Wait_JoinErr
    \/ Drain_Out
    \/ Drain_Err
    \/ Child_WriteOut
    \/ Child_WriteErr
    \/ Child_Terminate
    \/ Tick

Spec == Init /\ [][Next]_vars

----------------------------------------------------------------------------
(* Claims about Test::run and TestSpawner, checked under Spec *)

\* C1: when the child of a Test with a non-empty argument vector is still
\* running at the expiry of the run timeout, Test::run returns false,
\* whatever the agent's validate returns.
C1_TimeoutReturnsFalse ==
    (pcMain = "done" /\ test.cmd_args # <<>> /\ timedOut) => result = Some(FALSE)

\* C2: with require_communicator set, the wait for termination and the
\* communication phase run concurrently: neither of them is kept from
\* starting until the other has finished.
C2_PhasesConcurrent ==
    test.require_communicator =>
        /\ ~(pcMain = "lock_id" /\ pcWait \notin {"none", "lock", "done"})
        /\ ~(pcWait = "lock" /\ pcMain = "communicate")

\* C3: the process_id handed to TestAgent::communicate is the identifier of
\* the spawned child, never absent, read while the child is not yet reaped.
C3_ProcessIdIsChild ==
    \A i \in DOMAIN commCalls : commCalls[i] = Some(ChildPid)

\* C4: a child still running when the run timeout, counted from the end of
\* TestSpawner::new, has elapsed is killed at that point, even if
\* communicate has not returned: the child never runs past that time.
C4_KilledAtRunTimeout ==
    (spawnEnd >= 0 /\ childState = "running") =>
        clock <= spawnEnd + test.timeout

\* Without a communication phase the countdown does start at the end of
\* TestSpawner::new.
RunTimeoutHoldsWithoutCommunicator ==
    (~test.require_communicator /\ spawnEnd >= 0 /\ childState = "running") =>
        clock <= spawnEnd + test.timeout


\* C5: the wait task and the communication side never hold the shared child
\* handle at the same time; during one run the child is killed at most once
\* and at most one wait on it is in progress.
C5_HandleExclusive ==
    /\ Cardinality(holders) <= 1
    /\ killCount <= 1
    /\ activeWaits <= 1

\* the wait task has killed the child under the lock while the communication
\* side is waiting for the handle
C5_Witness ==
    /\ test.require_communicator
    /\ pcMain = "lock_id"
    /\ holders = {"wait"}
    /\ killCount = 1
    /\ activeWaits = 1

(* the ProcessOutputs built by TestSpawner::wait *)
RunOutputs == IF test.cmd_args = <<>> THEN <<>> ELSE produced

C7_TimeoutKillsReapsReportsTimeout ==
    (timedOut /\ pcWait = "done") =>
        /\ killCount = 1
        /\ childState = "reaped"
        /\ waitLocal.ret # None
        /\ waitLocal.ret[1].status = Ok(Status_Timeout)

\* wait has returned after killing a child whose OS status is SIGKILL
C7_Witness ==
    /\ timedOut
    /\ pcWait = "done"
    /\ osStatus = SIGKILL
    /\ waitLocal.ret # None

\* C8: both pipe_reader tasks are started right after the child is spawned;
\* a startup delay does not postpone them: while TestSpawner::new is
\* suspended in the startup delay the child's output is being drained.
C8_DrainsRunDuringStartupDelay ==
    pcMain = "sleep" => outTask.st = "reading" /\ errTask.st = "reading"


\* C11: for a Test with a non-empty argument vector whose disposition is not
\* a supervisor error, Test::run returns (classifier result AND agent
\* verdict), and validate is called exactly once, on the joined output, also
\* when the classifier has already returned false.
C11_RunReturnsClassifierAndVerdict ==
    /\ Len(validateCalls) <= 1
    /\ (pcMain = "done" /\ test.cmd_args # <<>> /\ test_output[1].status.ok) =>
            /\ Len(validateCalls) = 1
            /\ validateCalls[1].output = test_output[1]
            /\ validateCalls[1].comm = communicate_output
            /\ result = Some(on_validate(test_output[1]).val
                                /\ validateCalls[1].verdict)

\* a run whose classifier returned false and whose agent returned true
C11_Witness ==
    /\ pcMain = "done"
    /\ test.cmd_args # <<>>
    /\ test_output[1].status.ok
    /\ on_validate(test_output[1]) = Return(FALSE)
    /\ Len(validateCalls) = 1
    /\ validateCalls[1].verdict = TRUE
    /\ result = Some(FALSE)

\* C18: with an empty argument vector Test::run spawns no process, runs no
\* communication phase even if the template requires one, writes no log
\* file, and returns the agent's verdict on the idle result: empty stdout,
\* empty stderr, exit code 0, no communication result.
C18_EmptyArgsOnlyValidates ==
    test.cmd_args = <<>> =>
        /\ childState = "none"
        /\ pcWait = "none"
        /\ holders = {}
        /\ commCalls = <<>>
        /\ communicate_output = None
        /\ files = {}
        /\ pcMain \in {"start", "validate_dummy", "done"}
        /\ pcMain = "done" =>
            /\ Len(validateCalls) = 1
            /\ validateCalls[1].comm = None
            /\ validateCalls[1].output.stdout = <<>>
            /\ validateCalls[1].output.stderr = <<>>
            /\ validateCalls[1].output.status.ok
            /\ code(validateCalls[1].output.status.raw) = Some(0)
            /\ result = Some(validateCalls[1].verdict)

\* a Test with no arguments that requires communication and output logging
\* has returned the agent's false
C18_Witness ==
    /\ test.cmd_args = <<>>
    /\ test.require_communicator
    /\ test.log_output
    /\ pcMain = "done"
    /\ result = Some(FALSE)

\* C19: no child that terminates on its own before the timeout, with any
\* exit code or by any signal, yields the status wait returns on the
\* timeout path.
C19_TimeoutStatusDistinct ==
    (pcWait = "done" /\ ~timedOut) =>
        waitLocal.ret[1].status # TimeoutResult(SIGKILL)

----------------------------------------------------------------------------
(* SpecLive: one call of Test::run with the scheduling the runtime gives.  *)
(* Every task that can take a step eventually takes one, time passes, a    *)
(* pending timeout is reached however late it was started, and the agent's *)
(* communicate returns.  The child is not obliged to terminate.            *)

(* run.rs:109-114: time passing towards the deadline of a pending timeout *)
Tick_Timer ==
    /\ clock >= MaxTime
    /\ pcWait = "waiting"
    /\ clock < deadline
    /\ ~MainReady
    /\ ~WaitReady
    /\ ~ReadReady(outTask, outPipe)
    /\ ~ReadReady(errTask, errPipe)
    /\ clock' = clock + 1
    /\ UNCHANGED <<test, startup_delay, elfExists, pcMain, pcWait, holders,
                   childState, osStatus, handleDone, pipesOpen, outPipe,
                   errPipe, nWrites, outTask, errTask, wake, spawnEnd,
                   deadline, timedOut, killCount, activeWaits, waitLocal,
                   produced, test_output, commCalls, communicate_output,
                   files, is_not_errored, validateCalls, result, auxVars>>

(* the steps of the tokio tasks, of the timers and of the agent *)
Scheduled ==
    \/ Run_Start
    \/ Run_ValidateDummy
    \/ New_Spawn
    \/ New_Sleep
    \/ New_TakePipes
    \/ Run_SpawnWait
    \/ Run_LockId
    \/ Run_CommunicateReturn
    \/ Run_CommunicateLog
    \/ Run_Join
    \/ Run_Log
    \/ Run_OnValidate
    \/ Run_Validate
    \/ Wait_Lock
    \/ Wait_Natural
    \/ Wait_Timeout
    \/ Wait_Kill
    \/ Wait_Reap
    \/ Wait_JoinOut
    \/ Wait_JoinErr
    \/ Drain_Out
    \/ Drain_Err
    \/ Tick
    \/ Tick_Timer

NextLive ==
    \/ Next
    \/ Tick_Timer

SpecLive == Init /\ [][NextLive]_vars /\ WF_vars(Scheduled)

\* C20 as stated: once the child is spawned, each holder of the handle lock
\* eventually releases it and Test::run eventually returns a verdict.
C20_RunReturnsVerdict ==
    /\ ("main" \in holders) ~> ("main" \notin holders)
    /\ ("wait" \in holders) ~> ("wait" \notin holders)
    /\ (pcMain = "spawn_wait") ~> (pcMain = "done" /\ result # None)

\* C20, amended: once the child is spawned, each holder of the handle lock
\* eventually releases it and Test::run eventually returns a verdict or,
\* when child.wait() failed, ends in the supervisor-error panic of
\* on_validate.
C20_RunCompletes ==
    /\ ("main" \in holders) ~> ("main" \notin holders)
    /\ ("wait" \in holders) ~> ("wait" \notin holders)
    /\ (pcMain = "spawn_wait") ~>
            \/ pcMain = "done" /\ result # None
            \/ /\ pcMain = "panicked"
               /\ test_output # None
               /\ ~test_output[1].status.ok

\* a run with a communication phase that started after the wait task had
\* killed and reaped the child has returned
C20_Witness ==
    /\ pcMain = "done"
    /\ test.require_communicator
    /\ timedOut
    /\ commCalls = <<None>>
    /\ holders = {}
    /\ result # None

----------------------------------------------------------------------------
(* SpecClassify: Test::on_validate applied to one ProcessOutput.  The      *)
(* output is built from a disposition (how the run ended) and a stderr     *)
(* text made of at most MaxTokens tokens.                                  *)

Tokens ==
    {<<"i", "n">>, <<"I", "N">>, <<" ">>, <<"u", "s", "e">>,
     <<"U", "s", "E">>, <<BadByte>>}

RECURSIVE TokenStrings(_)
TokenStrings(n) ==
    IF n = 0 THEN {<<>>}
    ELSE LET prev == TokenStrings(n - 1) IN
         prev \cup {s \o t : s \in prev, t \in Tokens}

Dispositions ==
    [kind : {"exit"}, n : 0..255, core : {0}]
        \cup [kind : {"signal"}, n : 1..MaxSignal, core : {0, 1}]
        \cup {[kind |-> "timeout", n |-> 0, core |-> 0],
              [kind |-> "error", n |-> 0, core |-> 0]}

(* the Result<ExitStatus, io::Error> TestSpawner::wait reports: run.rs:117 *)
(* for a child that ended on its own or a failed wait, run.rs:122 on       *)
(* timeout; a signal's raw status carries the core-dump flag 0x80          *)
StatusOf(d) ==
    CASE d.kind = "exit" -> Ok(Shl8(d.n))
      [] d.kind = "signal" -> Ok(d.n + 128 * d.core)
      [] d.kind = "timeout" -> TimeoutResult(SIGKILL)
      [] OTHER -> Err

ClsInit ==
    /\ test = [cmd_args |-> <<"prog">>, timeout |-> 1, log_output |-> FALSE,
               require_communicator |-> FALSE]
    /\ startup_delay = 0
    /\ elfExists = TRUE
    /\ RunIdle
    /\ \E d \in Dispositions, e \in TokenStrings(MaxTokens) :
          clsIn = Some([disp |-> d,
                        output |-> ProcessOutput_new(<<>>, e, StatusOf(d))])
    /\ clsOut = None
    /\ InstIdle
    /\ MgrIdle

(* test_manager.rs:360: self.on_validate(&test_output) *)
Classify ==
    /\ clsOut = None
    /\ clsOut' = Some(on_validate(clsIn[1].output))
    /\ UNCHANGED <<runVars, clsIn, instVars, mgrVars>>

NextClassify == Classify

SpecClassify == ClsInit /\ [][NextClassify]_vars

UpperOf(c) ==
    CASE c = "i" -> "I"
      [] c = "n" -> "N"
      [] c = "u" -> "U"
      [] c = "s" -> "S"
      [] c = "e" -> "E"
      [] OTHER -> c

\* the bytes hold "in use" in some letter case
HasInUseAnyCase(bytes) ==
    \E i \in 0..(Len(bytes) - Len(InUse)) :
        \A k \in 1..Len(InUse) : bytes[i + k] \in {InUse[k], UpperOf(InUse[k])}

\* C9: when stderr does not hold "in use", on_validate returns true for
\* exit code 0 and 1, true for every other natural exit code, false for
\* termination by SIGSEGV or SIGABRT, true for any other signal.
C9_ClassifierWithoutInUse ==
    (clsOut # None /\ ~HasInUseAnyCase(clsIn[1].output.stderr)) =>
        /\ clsIn[1].disp.kind = "exit" => clsOut[1] = Return(TRUE)
        /\ (clsIn[1].disp.kind = "signal"
                /\ clsIn[1].disp.n \in {SIGSEGV, SIGABRT})
            => clsOut[1] = Return(FALSE)
        /\ (clsIn[1].disp.kind = "signal"
                /\ clsIn[1].disp.n \notin {SIGSEGV, SIGABRT})
            => clsOut[1] = Return(TRUE)

\* a core-dumping SIGABRT with a stderr that holds "inuse" was classified
C9_Witness ==
    /\ clsOut = Some(Return(FALSE))
    /\ clsIn[1].disp = [kind |-> "signal", n |-> SIGABRT, core |-> 1]
    /\ clsIn[1].output.stderr = <<"i", "n", "u", "s", "e">>

----------------------------------------------------------------------------
(* TestTemplate::instantiate, test_manager.rs:155-210.  A String is a      *)
(* sequence of one-character strings, a Vec<String> a sequence of those.   *)

MaxTemplateLen == 4

Placeholder == <<"{", "}">>
Whitespace == {" ", "\t", "\n"}
DigitChars == <<"0", "1", "2", "3", "4", "5", "6", "7", "8", "9">>

(* u16::to_string *)
RECURSIVE to_string(_)
to_string(n) ==
    IF n < 10 THEN <<DigitChars[n + 1]>>
    ELSE to_string(n \div 10) \o <<DigitChars[(n % 10) + 1]>>

(* Option::unwrap_or *)
unwrap_or(opt, default) == IF opt = None THEN default ELSE opt[1]

(* str::replacen(from, to, 1): only the first match is replaced *)
RECURSIVE replace_FirstOnly(_, _, _)
replace_FirstOnly(s, from, to) ==
    IF Len(s) < Len(from) THEN s
    ELSE IF SubSeq(s, 1, Len(from)) = from
    THEN to \o SubSeq(s, Len(from) + 1, Len(s))
    ELSE <<Head(s)>> \o replace_FirstOnly(Tail(s), from, to)

(* str::replace: every non-overlapping match, found left to right *)
RECURSIVE replace(_, _, _)
replace(s, from, to) ==
    IF Len(s) < Len(from) THEN s
    ELSE IF SubSeq(s, 1, Len(from)) = from
    THEN to \o replace(SubSeq(s, Len(from) + 1, Len(s)), from, to)
    ELSE <<Head(s)>> \o replace(Tail(s), from, to)

(* length of the run of non-whitespace characters s starts with *)
RECURSIVE WordLen(_)
WordLen(s) ==
    IF s = <<>> \/ Head(s) \in Whitespace THEN 0
    ELSE 1 + WordLen(Tail(s))

(* str::split_whitespace().collect(): the non-empty maximal runs *)
RECURSIVE split_whitespace(_)
split_whitespace(s) ==
    IF s = <<>> THEN <<>>
    ELSE IF Head(s) \in Whitespace THEN split_whitespace(Tail(s))
    ELSE LET n == WordLen(s) IN
         <<SubSeq(s, 1, n)>> \o split_whitespace(SubSeq(s, n + 1, Len(s)))

(* test_manager.rs:183-193 *)
ValgrindArgs(name) ==
    <<
      <<"v", "a", "l", "g", "r", "i", "n", "d">>,
      <<"-", "-", "l", "e", "a", "k", "-", "c", "h", "e", "c", "k", "=",
      "f", "u", "l", "l">>,
      <<"-", "-", "t", "o", "o", "l", "=", "m", "e", "m", "c", "h", "e",
      "c", "k">>,
      <<"-", "-", "s", "h", "o", "w", "-", "l", "e", "a", "k", "-", "k",
      "i", "n", "d", "s", "=", "a", "l", "l">>,
      <<"-", "-", "t", "r", "a", "c", "k", "-", "o", "r", "i", "g", "i",
      "n", "s", "=", "y", "e", "s">>,
      <<"-", "-", "v", "e", "r", "b", "o", "s", "e">>,
      <<"-", "-", "e", "r", "r", "o", "r", "-", "e", "x", "i", "t", "c",
      "o", "d", "e", "=", "1">>,
      <<"-", "v">>,
      <<"-", "-", "l", "o", "g", "-", "f", "i", "l", "e", "=", "v", "a",
      "l", "g", "r", "i", "n", "d", " ", "-", " ">> \o name>>

(* instantiate that does not ask for the communicator's timeout *)
instantiate_NoTimeoutCheck(t, p, agent) ==
    IF t.require_communicator /\ p = None THEN Panic
    ELSE IF contains(t.cmd_args_template, Placeholder) /\ p = None THEN Panic
    ELSE
        LET port_ == unwrap_or(p, 0)
            cmd_args == IF contains(t.cmd_args_template, Placeholder)
                        THEN replace(t.cmd_args_template, Placeholder,
                                     to_string(port_))
                        ELSE t.cmd_args_template
            args == split_whitespace(cmd_args)
        IN  Return([name |-> t.name,
                    cmd_args |-> IF t.valgrind
                                 THEN ValgrindArgs(t.name) \o args
                                 ELSE args,
                    test |-> agent,
                    timeout |-> t.timeout,
                    log_output |-> t.log_output,
                    require_communicator |-> t.require_communicator,
                    operation_timeout |-> t.operation_timeout,
                    port |-> port_])

(* test_manager.rs:155-210; agent is what (self.test_factory)() returns *)
instantiate(t, p, agent) ==
    IF t.require_communicator /\ p = None THEN Panic
    ELSE IF t.require_communicator /\ t.operation_timeout = 0 THEN Panic
    ELSE IF contains(t.cmd_args_template, Placeholder) /\ p = None THEN Panic
    ELSE
        LET port_ == unwrap_or(p, 0)
            cmd_args == IF contains(t.cmd_args_template, Placeholder)
                        THEN replace(t.cmd_args_template, Placeholder,
                                     to_string(port_))
                        ELSE t.cmd_args_template
            args == split_whitespace(cmd_args)
        IN  Return([name |-> t.name,
                    cmd_args |-> IF t.valgrind
                                 THEN ValgrindArgs(t.name) \o args
                                 ELSE args,
                    test |-> agent,
                    timeout |-> t.timeout,
                    log_output |-> t.log_output,
                    require_communicator |-> t.require_communicator,
                    operation_timeout |-> t.operation_timeout,
                    port |-> port_])

----------------------------------------------------------------------------
(* SpecInst: one call of TestTemplate::instantiate, on a template whose    *)
(* argument template is any string of at most MaxTemplateLen characters.   *)

Alphabet == {"{", "}", " ", "\t", "a"}
Strings(n) == UNION {[1..k -> Alphabet] : k \in 0..n}
Ports == {0, 80, 65535}
PortArgs == {None} \cup {Some(p) : p \in Ports}

InstTemplates ==
    [name : {<<"t">>}, cmd_args_template : Strings(MaxTemplateLen),
     valgrind : BOOLEAN, require_communicator : BOOLEAN,
     operation_timeout : {0, 1}, timeout : {1}, log_output : {FALSE}]

InstInit ==
    /\ test = [cmd_args |-> <<"prog">>, timeout |-> 1, log_output |-> FALSE,
               require_communicator |-> FALSE]
    /\ startup_delay = 0
    /\ elfExists = TRUE
    /\ RunIdle
    /\ ClsIdle
    /\ MgrIdle
    /\ \E t \in InstTemplates : template = Some(t)
    /\ port \in PortArgs
    /\ instOut = None

(* template.instantiate(port), test_manager.rs:400 *)
Instantiate ==
    /\ instOut = None
    /\ LET r == instantiate(template[1], port, factoryCalls + 1) IN
        /\ instOut' = Some(r)
        /\ factoryCalls' = IF r.panic THEN factoryCalls ELSE factoryCalls + 1
    /\ UNCHANGED <<runVars, clsVars, template, port, templates, active_tests,
                   mgrPc, running, runObs, collected, returned, agentRuns,
                   lastCall>>

NextInst == Instantiate

SpecInst == InstInit /\ [][NextInst]_vars

(* the decimal text of the ports of Ports, written out *)
PortText(p) ==
    CASE p = 0 -> <<"0">>
      [] p = 80 -> <<"8", "0">>
      [] p = 65535 -> <<"6", "5", "5", "3", "5">>

(* One pass over the template: a placeholder adds the port's text to the   *)
(* current argument, a blank or tab closes it, any other character joins   *)
(* it.                                                                     *)
RECURSIVE Scan(_, _, _)
Scan(s, digits, cur) ==
    LET closed == IF cur = <<>> THEN <<>> ELSE <<cur>> IN
    IF s = <<>> THEN closed
    ELSE IF Len(s) >= 2 /\ s[1] = "{" /\ s[2] = "}"
    THEN Scan(SubSeq(s, 3, Len(s)), digits, cur \o digits)
    ELSE IF s[1] = " " \/ s[1] = "\t"
    THEN closed \o Scan(Tail(s), digits, <<>>)
    ELSE Scan(Tail(s), digits, cur \o <<s[1]>>)

HasPlaceholder(s) == \E i \in 1..(Len(s) - 1) : s[i] = "{" /\ s[i + 1] = "}"

(* the arguments the claim expects of a call that returned *)
ExpectedArgs ==
    IF port = None THEN Scan(template[1].cmd_args_template, <<"{", "}">>, <<>>)
    ELSE Scan(template[1].cmd_args_template, PortText(port[1]), <<>>)

\* C13 as stated: with a placeholder in the argument template,
\* instantiate(None) fails and instantiate(Some(p)), when it returns, yields
\* exactly the whitespace tokenization of the template with every placeholder
\* replaced by the decimal text of p, no placeholder remaining; without a
\* placeholder the template is tokenized unchanged and the port is 0 when
\* none is given.
C13_ArgsAreTokenization ==
    instOut # None =>
        LET t == template[1]
            r == instOut[1]
        IN  /\ (HasPlaceholder(t.cmd_args_template) /\ port = None) => r.panic
            /\ ~r.panic =>
                /\ r.val.cmd_args = ExpectedArgs
                /\ \A i \in DOMAIN r.val.cmd_args :
                        ~HasPlaceholder(r.val.cmd_args[i])
                /\ port = None => r.val.port = 0

\* C13, amended: the same, except that the tokenization is preceded by the
\* nine valgrind arguments when the template's valgrind flag is set.
C13_ArgsAreValgrindThenTokenization ==
    instOut # None =>
        LET t == template[1]
            r == instOut[1]
            skip == IF t.valgrind THEN Len(ValgrindArgs(t.name)) ELSE 0
        IN  /\ (HasPlaceholder(t.cmd_args_template) /\ port = None) => r.panic
            /\ ~r.panic =>
                /\ Len(r.val.cmd_args) = skip + Len(ExpectedArgs)
                /\ SubSeq(r.val.cmd_args, 1, skip) =
                        (IF t.valgrind THEN ValgrindArgs(t.name) ELSE <<>>)
                /\ SubSeq(r.val.cmd_args, skip + 1, Len(r.val.cmd_args)) =
                        ExpectedArgs
                /\ \A i \in (skip + 1)..Len(r.val.cmd_args) :
                        ~HasPlaceholder(r.val.cmd_args[i])
                /\ port = None => r.val.port = 0

(* a valgrind template with two placeholders was instantiated with port 80 *)
C13_Witness ==
    /\ instOut # None
    /\ ~instOut[1].panic
    /\ template[1].valgrind
    /\ template[1].cmd_args_template = <<"{", "}", "{", "}">>
    /\ port = Some(80)
    /\ instOut[1].val.cmd_args[Len(instOut[1].val.cmd_args)] =
            <<"8", "0", "8", "0">>

----------------------------------------------------------------------------
(* SpecMgr: a TestManager and the calls made on it.  An IndexMap is the    *)
(* sequence of its values in order (every value carries its key, name).    *)
(* Test::run is taken whole: given how the child ended, what it wrote to   *)
(* stderr and the agent's verdict, it returns what Spec's Run_Validate     *)
(* and Run_ValidateDummy return.  The vector run_tests returns borrows the *)
(* manager (its &str are the tests' names), so it is dropped before the    *)
(* next register/instantiate/reinstantiate call, which takes &mut self.    *)
(* A panic ends the program.                                               *)

MaxAgents == 3
MaxRuns == 2

(* position of key k, 0 when absent: IndexMap::get_index_of *)
IndexOf(m, k) ==
    IF \E i \in DOMAIN m : m[i].name = k
    THEN CHOOSE i \in DOMAIN m : m[i].name = k
    ELSE 0

(* IndexMap::get *)
IndexMap_get(m, k) == IF IndexOf(m, k) = 0 THEN None ELSE Some(m[IndexOf(m, k)])

(* insert that adds an entry even when the key is present *)
IndexMap_insert_AlwaysAppends(m, v) == Append(m, v)

(* IndexMap::insert: a present key keeps its place, a new one goes last *)
IndexMap_insert(m, v) ==
    IF IndexOf(m, v.name) = 0 THEN Append(m, v)
    ELSE [m EXCEPT ![IndexOf(m, v.name)] = v]

(* IndexMap::shift_remove: the later entries move up *)
IndexMap_shift_remove(m, k) ==
    IF IndexOf(m, k) = 0 THEN m
    ELSE SubSeq(m, 1, IndexOf(m, k) - 1)
            \o SubSeq(m, IndexOf(m, k) + 1, Len(m))

MgrNames == {<<"a">>, <<"b">>}
MgrPorts == {None, Some(80)}

(* the configurations a template is registered with *)
MgrConfigs ==
    {[cmd_args_template |-> <<"a">>, require_communicator |-> FALSE,
      operation_timeout |-> 0],
     [cmd_args_template |-> <<"a", " ", "{", "}">>,
      require_communicator |-> FALSE, operation_timeout |-> 0],
     [cmd_args_template |-> <<"a">>, require_communicator |-> TRUE,
      operation_timeout |-> 0]}

MgrTemplate(name, c) ==
    [name |-> name, cmd_args_template |-> c.cmd_args_template,
     valgrind |-> FALSE, require_communicator |-> c.require_communicator,
     operation_timeout |-> c.operation_timeout, timeout |-> 1,
     log_output |-> FALSE]

(* how one run can end: the child's end, its stderr, the agent's verdict *)
RunEnds ==
    [d : {[kind |-> "exit", n |-> 0, core |-> 0]}, stderr : {<<>>},
     verdict : BOOLEAN]
        \cup [d : {[kind |-> "signal", n |-> SIGSEGV, core |-> 0],
                   [kind |-> "timeout", n |-> 0, core |-> 0],
                   [kind |-> "error", n |-> 0, core |-> 0]},
              stderr : {<<>>}, verdict : {TRUE}]
        \cup {[d |-> [kind |-> "exit", n |-> 1, core |-> 0],
               stderr |-> <<"I", "n", " ", "u", "s", "e">>,
               verdict |-> TRUE]}

(* Test::run, test_manager.rs:271-369, from its inputs to its result *)
Test_run(t, end) ==
    IF t.cmd_args = <<>> THEN Return(end.verdict)
    ELSE LET c == on_validate(ProcessOutput_new(<<>>, end.stderr,
                                                StatusOf(end.d)))
         IN  IF c.panic THEN Panic ELSE Return(RunResult(c.val, end.verdict))

MgrInit ==
    /\ test = [cmd_args |-> <<"prog">>, timeout |-> 1, log_output |-> FALSE,
               require_communicator |-> FALSE]
    /\ startup_delay = 0
    /\ elfExists = TRUE
    /\ RunIdle
    /\ ClsIdle
    /\ InstIdle
    /\ MgrIdle

(* test_manager.rs:391-394 *)
Mgr_register_template ==
    /\ mgrPc = "idle"
    /\ \E name \in MgrNames, c \in MgrConfigs :
          templates' = IndexMap_insert(templates, MgrTemplate(name, c))
    /\ returned' = None
    /\ lastCall' = None
    /\ UNCHANGED <<runVars, clsVars, instVars, active_tests, factoryCalls,
                   mgrPc, running, runObs, collected, agentRuns>>

(* instantiate_test(template_name, p) on the active tests `tests`,         *)
(* test_manager.rs:398-402: what it leaves in active_tests, factoryCalls   *)
(* and mgrPc.  unwrap() of a missing template panics.                      *)
instantiate_test(tests, template_name, p) ==
    LET found == IndexMap_get(templates, template_name)
        r == IF found = None THEN Panic
             ELSE instantiate(found[1], p, factoryCalls + 1)
    IN  [active_tests |-> IF r.panic THEN tests
                          ELSE IndexMap_insert(tests, r.val),
         factoryCalls |-> IF r.panic THEN factoryCalls ELSE factoryCalls + 1,
         mgrPc |-> IF r.panic THEN "panicked" ELSE "idle"]

(* test_manager.rs:398-402 *)
Mgr_instantiate_test ==
    /\ mgrPc = "idle"
    /\ factoryCalls < MaxAgents
    /\ \E name \in MgrNames, p \in MgrPorts :
          LET after == instantiate_test(active_tests, name, p) IN
            /\ active_tests' = after.active_tests
            /\ factoryCalls' = after.factoryCalls
            /\ mgrPc' = after.mgrPc
            /\ lastCall' = Some([op |-> "instantiate_test", name |-> name,
                                 port |-> p,
                                 panicked |-> after.mgrPc = "panicked"])
    /\ returned' = None
    /\ UNCHANGED <<runVars, clsVars, instVars, templates, running, runObs,
                   collected, agentRuns>>

(* reinstantiate_test that installs the new instance beside the old one *)
Mgr_reinstantiate_test_KeepsPrior ==
    /\ mgrPc = "idle"
    /\ factoryCalls < MaxAgents
    /\ \E name \in MgrNames, p \in MgrPorts \ {None} :
          LET after == instantiate_test(<<>>, name, p) IN
            /\ active_tests' = active_tests \o after.active_tests
            /\ factoryCalls' = after.factoryCalls
            /\ mgrPc' = after.mgrPc
            /\ lastCall' = Some([op |-> "reinstantiate_test", name |-> name,
                                 port |-> p,
                                 panicked |-> after.mgrPc = "panicked"])
    /\ returned' = None
    /\ UNCHANGED <<runVars, clsVars, instVars, templates, running, runObs,
                   collected, agentRuns>>

(* test_manager.rs:412-415, with remove_test, 406-408 *)
Mgr_reinstantiate_test ==
    /\ mgrPc = "idle"
    /\ factoryCalls < MaxAgents
    /\ \E name \in MgrNames, p \in MgrPorts \ {None} :
          LET removed == IndexMap_shift_remove(active_tests, name)
              after == instantiate_test(removed, name, p)
          IN
            /\ active_tests' = after.active_tests
            /\ factoryCalls' = after.factoryCalls
            /\ mgrPc' = after.mgrPc
            /\ lastCall' = Some([op |-> "reinstantiate_test", name |-> name,
                                 port |-> p,
                                 panicked |-> after.mgrPc = "panicked"])
    /\ returned' = None
    /\ UNCHANGED <<runVars, clsVars, instVars, templates, running, runObs,
                   collected, agentRuns>>

(* test_manager.rs:437-439: run_tests starts iterating active_tests *)
Mgr_run_tests ==
    /\ mgrPc = "idle"
    /\ Len(agentRuns) + Len(active_tests) <= MaxRuns
    /\ mgrPc' = "running"
    /\ runObs' = <<>>
    /\ collected' = <<>>
    /\ returned' = None
    /\ lastCall' = None
    /\ UNCHANGED <<runVars, clsVars, instVars, templates, active_tests,
                   factoryCalls, running, agentRuns>>

(* test_manager.rs:440-443: block_on(test.run(..)) of the next test begins *)
Mgr_run_start ==
    /\ mgrPc = "running"
    /\ running = {}
    /\ Len(collected) < Len(active_tests)
    /\ LET t == active_tests[Len(collected) + 1] IN
        /\ running' = {t.name}
        /\ agentRuns' = Append(agentRuns, t.test)
    /\ UNCHANGED <<runVars, clsVars, instVars, templates, active_tests,
                   factoryCalls, mgrPc, runObs, collected, returned,
                   lastCall>>

(* test_manager.rs:441-445: the run returns and its pair is produced, or   *)
(* it panics                                                               *)
Mgr_run_return ==
    /\ mgrPc = "running"
    /\ running # {}
    /\ \E end \in RunEnds :
          LET t == active_tests[Len(collected) + 1]
              outcome == Test_run(t, end)
          IN
            /\ running' = {}
            /\ mgrPc' = IF outcome.panic THEN "panicked" ELSE "running"
            /\ runObs' = Append(runObs, [name |-> t.name, agent |-> t.test,
                                         end |-> end])
            /\ collected' = IF outcome.panic THEN collected
                            ELSE Append(collected,
                                        [name |-> t.name,
                                         passed |-> outcome.val])
    /\ UNCHANGED <<runVars, clsVars, instVars, templates, active_tests,
                   factoryCalls, returned, agentRuns, lastCall>>

(* test_manager.rs:447: collect() hands the vector back *)
Mgr_run_tests_return ==
    /\ mgrPc = "running"
    /\ running = {}
    /\ Len(collected) = Len(active_tests)
    /\ mgrPc' = "idle"
    /\ returned' = Some([results |-> collected, obs |-> runObs])
    /\ runObs' = <<>>
    /\ collected' = <<>>
    /\ UNCHANGED <<runVars, clsVars, instVars, templates, active_tests,
                   factoryCalls, running, agentRuns, lastCall>>

NextMgr ==
    \/ Mgr_register_template
    \/ Mgr_instantiate_test
    \/ Mgr_reinstantiate_test
    \/ Mgr_run_tests
    \/ Mgr_run_start
    \/ Mgr_run_return
    \/ Mgr_run_tests_return

SpecMgr == MgrInit /\ [][NextMgr]_vars

(* a step that is one instantiate_test or reinstantiate_test call: it      *)
(* calls the factory or panics                                             *)
InstantiateCall(op) ==
    /\ mgrPc = "idle"
    /\ factoryCalls' = factoryCalls + 1 \/ mgrPc' = "panicked"
    /\ lastCall'[1].op = op

(* the three configuration errors of the claim *)
ConfigurationError(t, p) ==
    \/ t.require_communicator /\ t.operation_timeout = 0
    \/ t.require_communicator /\ p = None
    \/ HasPlaceholder(t.cmd_args_template) /\ p = None

\* C12: instantiate_test on a registered template panics, produces no Test
\* and leaves active_tests as it was, exactly when the template requires
\* communication with a zero operation_timeout, or requires communication
\* and no port is given, or has the placeholder and no port is given; in
\* every other case it returns and the new Test is active.
C12_ConfigurationErrorsAreFatal ==
    [][(InstantiateCall("instantiate_test")
            /\ IndexOf(templates, lastCall'[1].name) # 0) =>
        LET name == lastCall'[1].name
            t == templates[IndexOf(templates, name)]
        IN  IF ConfigurationError(t, lastCall'[1].port)
            THEN /\ mgrPc' = "panicked"
                 /\ factoryCalls' = factoryCalls
                 /\ active_tests' = active_tests
            ELSE /\ mgrPc' = "idle"
                 /\ IndexOf(active_tests', name) # 0
                 /\ active_tests'[IndexOf(active_tests', name)].test =
                        factoryCalls'
                 /\ factoryCalls' = factoryCalls + 1]_vars

(* a template that only lacks the communicator's timeout was instantiated  *)
(* with a port while another test was active                               *)
C12_Witness ==
    /\ mgrPc = "panicked"
    /\ lastCall # None
    /\ lastCall[1].op = "instantiate_test"
    /\ lastCall[1].port # None
    /\ active_tests # <<>>
    /\ IndexOf(templates, lastCall[1].name) # 0
    /\ templates[IndexOf(templates, lastCall[1].name)].require_communicator

(* what reinstantiate_test(name, port) of an active name is claimed to do *)
Replaced(name) ==
    LET old == active_tests[IndexOf(active_tests, name)] IN
    /\ mgrPc' = "idle"
    /\ Len(active_tests') = Len(active_tests)
    /\ \A i \in DOMAIN active_tests' : active_tests'[i].test # old.test
    /\ \E i \in DOMAIN active_tests' :
        /\ active_tests'[i].name = name
        /\ active_tests'[i].port = lastCall'[1].port[1]
        /\ active_tests'[i].test = factoryCalls'
        /\ \A j \in DOMAIN active_tests' :
                active_tests'[j].name = name => j = i

\* C14 as stated: in every reachable manager state, reinstantiate_test of an
\* active name removes the prior instance, installs a new instance of that
\* name bound to the given port, and leaves the number of active tests as
\* it was.
C14_ReinstantiateReplaces ==
    [][(InstantiateCall("reinstantiate_test")
            /\ IndexOf(active_tests, lastCall'[1].name) # 0) =>
        Replaced(lastCall'[1].name)]_vars

\* C14, amended: the same when the template now registered under the name
\* passes instantiate's checks; when it has been replaced by one that
\* requires communication with a zero operation_timeout, the call removes
\* the prior instance and panics.
C14_ReinstantiateReplacesOrFails ==
    [][(InstantiateCall("reinstantiate_test")
            /\ IndexOf(active_tests, lastCall'[1].name) # 0) =>
        LET name == lastCall'[1].name
            t == templates[IndexOf(templates, name)]
        IN  IF t.require_communicator /\ t.operation_timeout = 0
            THEN /\ mgrPc' = "panicked"
                 /\ Len(active_tests') = Len(active_tests) - 1
                 /\ IndexOf(active_tests', name) = 0
            ELSE Replaced(name)]_vars

(* the test instantiated second, of two active ones, was reinstantiated on *)
(* port 80: the third instance made has replaced the second                *)
C14_Witness ==
    /\ mgrPc = "idle"
    /\ lastCall # None
    /\ lastCall[1].op = "reinstantiate_test"
    /\ factoryCalls = 3
    /\ Len(active_tests) = 2
    /\ active_tests[1].test = 1
    /\ active_tests[2].test = 3
    /\ active_tests[2].name = lastCall[1].name
    /\ active_tests[2].port = 80

\* C15: run_tests runs one test at a time, in the order in which the
\* current instances were instantiated (the n-th instantiated instance holds
\* agent n), and the returned list has that order.
C15_RunsInInstantiationOrder ==
    /\ Cardinality(running) <= 1
    /\ running # {} => mgrPc = "running"
    /\ returned # None =>
        LET obs == returned[1].obs
            results == returned[1].results
        IN  /\ \A i, j \in DOMAIN obs : i < j => obs[i].agent < obs[j].agent
            /\ Len(results) = Len(obs)
            /\ \A i \in DOMAIN obs : results[i].name = obs[i].name

(* the outcomes the claim lists as expected but unhealthy *)
Unhealthy(end) ==
    \/ end.d.kind = "timeout"
    \/ end.d.kind = "signal" /\ end.d.n \in {SIGSEGV, SIGABRT}
    \/ HasInUseAnyCase(end.stderr)
    \/ ~end.verdict

\* C16: run_tests returns one (name, passed) pair per active test, every
\* active test was run, and a test's pair is passed = false exactly when its
\* own run ended in a timeout, SIGSEGV or SIGABRT, "in use" on stderr or a
\* false verdict of the agent.
C16_UnhealthyRunFailsAlone ==
    returned # None =>
        LET obs == returned[1].obs
            results == returned[1].results
        IN  /\ Len(results) = Len(active_tests)
            /\ Len(obs) = Len(active_tests)
            /\ \A i \in DOMAIN results :
                /\ results[i].name = active_tests[i].name
                /\ obs[i].name = active_tests[i].name
                /\ results[i].passed = ~Unhealthy(obs[i].end)

\* C17: no agent is used by more than one run.
C17_AgentUsedByOneRun ==
    \A i, j \in DOMAIN agentRuns : i # j => agentRuns[i] # agentRuns[j]

(* a step taken inside a run_tests call, from its entry to its return *)
RunTestsStep == mgrPc = "running" \/ mgrPc' = "running"

(* every active test bears the name of a registered template, and no two   *)
(* active tests bear the same name                                         *)
ActiveTestsNamed ==
    /\ \A i \in DOMAIN active_tests :
            \E k \in DOMAIN templates :
                templates[k].name = active_tests[i].name
    /\ \A i, j \in DOMAIN active_tests :
            active_tests[i].name = active_tests[j].name => i = j

\* C21: in every state reached by register_template, instantiate_test,
\* reinstantiate_test and run_tests, every active test's name is the name of
\* a registered template and there is at most one active instance per name;
\* and no step of run_tests changes templates or active_tests.
C21_ActiveTestsNamedAndKeptByRuns ==
    /\ []ActiveTestsNamed
    /\ [][RunTestsStep =>
            /\ templates' = templates
            /\ active_tests' = active_tests]_vars

(* run_tests has returned the pairs of two active tests, the third         *)
(* instance made having replaced an earlier one                            *)
C21_Witness ==
    /\ mgrPc = "idle"
    /\ returned # None
    /\ Len(returned[1].results) = 2
    /\ Len(active_tests) = 2
    /\ Len(templates) = 2
    /\ factoryCalls = 3

====
